---- MODULE Spec2Model ----
(***************************************************************************)
(* Route-finding engine of express-path-api (src/services/pathfinding.js): *)
(* PathFinder.buildGraph / findPath / reconstructPath / reset, the MinHeap *)
(* priority queue and the getPathfinder / resetPathfinder singleton, over  *)
(* the node and edge tables of the Sequelize models.                       *)
(*                                                                         *)
(* Distances are fixed-point integers, Scale units per metre, so that the  *)
(* two-decimal rounding of total_distance is not the identity.             *)
(***************************************************************************)
EXTENDS Integers, Sequences, FiniteSets, Bags, TLC

\* ------------------------------------------------------------------ bounds
MaxEdges == 4

\* ------------------------------------------------------- program constants
Scale == 1000
MetersPerFloor == 4

\* the nodes and floors of the search runs
NodeIds == {1, 2, 3, 4}
MaxNodes == Cardinality(NodeIds)
Floors == {0, 1}
\* edge distances offered by the data layer (FLOAT >= 0, in 1/Scale metres)
Distances == {1004, 5000}
\* compass_angle null of the start step
NullAngle == -1
NoNode == 0

\* node_code of the node with id n; code 0 is a code no node carries
NodeCode(n) == 100 + n
UnknownCode == 0

\* ------------------------------------------------------------- JS Map helpers
EmptyMap == << >>
MapHas(m, k) == k \in DOMAIN m
MapSet(m, k, v) == [x \in (DOMAIN m) \cup {k} |-> IF x = k THEN v ELSE m[x]]

\* ------------------------------------------------------------------ records
NodeRec(n, f) == [node_id |-> n, node_code |-> NodeCode(n), floor_level |-> f]

EdgeRec(id, from, to, d, ang, st, act) ==
    [edge_id |-> id, from_node_id |-> from, to_node_id |-> to, distance |-> d,
     compass_angle |-> ang, is_staircase |-> st, is_active |-> act]

\* ------------------------------------------------------------ buildGraph
\* lines 30-33: cache every fetched node and give it an empty adjacency list
RECURSIVE CacheNodes(_, _)
CacheNodes(eng, nodes) ==
    IF nodes = {} THEN eng
    ELSE LET node == CHOOSE x \in nodes : \A y \in nodes : x.node_id <= y.node_id
         IN CacheNodes([eng EXCEPT !.nodesCache = MapSet(@, node.node_id, node),
                                   !.graph = MapSet(@, node.node_id, << >>)],
                       nodes \ {node})

ForwardEntry(edge) ==
    [to |-> edge.to_node_id, distance |-> edge.distance,
     compass_angle |-> edge.compass_angle, is_staircase |-> edge.is_staircase,
     edge_id |-> edge.edge_id]

ReverseAngle(angle) == (angle + 180) % 360

ReverseEntry(edge) ==
    [to |-> edge.from_node_id, distance |-> edge.distance,
     compass_angle |-> ReverseAngle(edge.compass_angle),
     is_staircase |-> edge.is_staircase, edge_id |-> edge.edge_id]

\* lines 49-57: the forward push, guarded by graph.has(fromId)
PushForward(graph, edge) ==
    IF MapHas(graph, edge.from_node_id)
    THEN [graph EXCEPT ![edge.from_node_id] = Append(@, ForwardEntry(edge))]
    ELSE graph

\* lines 60-69: the reverse push, guarded by graph.has(toId)
PushReverse(graph, edge) ==
    IF MapHas(graph, edge.to_node_id)
    THEN [graph EXCEPT ![edge.to_node_id] = Append(@, ReverseEntry(edge))]
    ELSE graph

\* lines 44-70: the loop over the fetched edges
RECURSIVE AddEdges(_, _)
AddEdges(graph, edges) ==
    IF edges = << >> THEN graph
    ELSE AddEdges(PushReverse(PushForward(graph, Head(edges)), Head(edges)), Tail(edges))

\* line 37 left out: every edge is fetched
ActiveEdgesAll(edges) == edges

\* where: { is_active: true }
ActiveEdges(edges) == SelectSeq(edges, LAMBDA e : e.is_active)

\* constructor, and the state reset() leaves
NewEngine == [nodesCache |-> EmptyMap, graph |-> EmptyMap, initialized |-> FALSE]

\* a whole buildGraph with nothing interleaved
BuildGraph(nodes, edges) ==
    LET e1 == CacheNodes(NewEngine, nodes)
    IN [e1 EXCEPT !.graph = AddEdges(@, ActiveEdges(edges)), !.initialized = TRUE]

\* --------------------------------------------------------------- heuristic
Abs(x) == IF x < 0 THEN -x ELSE x

\* lines 79-87 with line 86 estimating three times as much per floor
heuristicSteep(cache, nodeAId, nodeBId) ==
    IF ~MapHas(cache, nodeAId) \/ ~MapHas(cache, nodeBId) THEN 0
    ELSE Abs(cache[nodeAId].floor_level - cache[nodeBId].floor_level)
             * 3 * MetersPerFloor * Scale

\* lines 79-87: 4 metres per floor of difference, 0 when a node is not cached
heuristic(cache, nodeAId, nodeBId) ==
    IF ~MapHas(cache, nodeAId) \/ ~MapHas(cache, nodeBId) THEN 0
    ELSE Abs(cache[nodeAId].floor_level - cache[nodeBId].floor_level)
             * MetersPerFloor * Scale

\* ----------------------------------------------------------------- MinHeap
\* the heap array, 1-based: parent of k is k \div 2, children 2k and 2k+1
HeapEntry(priority, value) == [priority |-> priority, value |-> value]

Swap(h, i, j) == [h EXCEPT ![i] = h[j], ![j] = h[i]]

RECURSIVE bubbleUp(_, _)
bubbleUp(h, index) ==
    IF index <= 1 THEN h
    ELSE LET parentIndex == index \div 2
         IN IF h[parentIndex].priority <= h[index].priority THEN h
            ELSE bubbleUp(Swap(h, parentIndex, index), parentIndex)

\* bubbleDown without its loop: the entry moved to the root stays there
bubbleDownNot(h, index) == h

RECURSIVE bubbleDown(_, _)
bubbleDown(h, index) ==
    LET leftChild == 2 * index
        rightChild == 2 * index + 1
        s1 == IF leftChild <= Len(h) /\ h[leftChild].priority < h[index].priority
              THEN leftChild ELSE index
        smallest == IF rightChild <= Len(h) /\ h[rightChild].priority < h[s1].priority
                    THEN rightChild ELSE s1
    IN IF smallest = index THEN h
       ELSE bubbleDown(Swap(h, smallest, index), smallest)

HeapPush(h, priority, value) ==
    bubbleUp(Append(h, HeapEntry(priority, value)), Len(h) + 1)

\* pop() on a non-empty heap: the entry returned and the heap left
HeapPopMin(h) == h[1]

\* pop() that returns the root and leaves it in the array
HeapPopKeep(h) == h

HeapPopRest(h) ==
    IF Len(h) = 1 THEN << >>
    ELSE bubbleDown([SubSeq(h, 1, Len(h) - 1) EXCEPT ![1] = h[Len(h)]], 1)

\* what pop() returns on an empty heap: null
NullEntry == HeapEntry(-1, NoNode)

\* lines 287-295: pop(), the entry returned and the heap left
pop(h) ==
    IF Len(h) = 0 THEN [min |-> NullEntry, heap |-> h]
    ELSE [min |-> HeapPopMin(h), heap |-> HeapPopRest(h)]

\* lines 297-299
isEmpty(h) == Len(h) = 0

\* ----------------------------------------------------------------- results
NoResult ==
    [kind |-> "none", code |-> UnknownCode, path |-> << >>,
     total_distance |-> 0, num_nodes |-> 0]

\* { error: `Start node not found: ${startCode}` }
StartNotFound(code) == [NoResult EXCEPT !.kind = "start_not_found", !.code = code]

\* { error: `Goal node not found: ${goalCode}` }
GoalNotFound(code) == [NoResult EXCEPT !.kind = "goal_not_found", !.code = code]

\* { error: 'No path found between the specified nodes' }
NoPathFound == [NoResult EXCEPT !.kind = "no_path"]

\* a TypeError thrown out of findPath (a property read on undefined)
InternalFault == [NoResult EXCEPT !.kind = "fault"]

\* the predecessor walk of reconstructPath never ends
Diverges == [NoResult EXCEPT !.kind = "diverges"]

\* ---------------------------------------------------------- reconstructPath
\* Math.round(totalDistance * 100) / 100 on a non-negative fixed-point value
Round2(x) == ((x * 100 + Scale \div 2) \div Scale) * (Scale \div 100)

PathStep(node, d, ang, st) ==
    [node_id |-> node.node_id, node_code |-> node.node_code,
     floor_level |-> node.floor_level, distance_from_prev |-> d,
     compass_angle |-> ang, is_staircase |-> st]

\* line 208 left out: the steps stay in the order they were pushed
ReverseNot(seq) == seq

\* line 208: path.reverse()
Reverse(seq) == [i \in 1..Len(seq) |-> seq[Len(seq) + 1 - i]]

\* lines 167-189: the walk from the goal back along cameFrom.  The outcome is
\* the steps pushed, or "fault" when a walked node is not in nodesCache, or
\* "loop" when the links never reach the start (fuel = number of links).
RECURSIVE WalkBack(_, _, _, _, _, _)
WalkBack(cameFrom, cache, currentId, startId, path, fuel) ==
    IF currentId = startId \/ ~MapHas(cameFrom, currentId)
    THEN [kind |-> "ok", path |-> path]
    ELSE IF ~MapHas(cache, currentId) THEN [kind |-> "fault", path |-> path]
    ELSE IF fuel = 0 THEN [kind |-> "loop", path |-> path]
    ELSE LET link == cameFrom[currentId]
             step == PathStep(cache[currentId], link.edge.distance,
                              link.edge.compass_angle, link.edge.is_staircase)
         IN WalkBack(cameFrom, cache, link.prev, startId, Append(path, step), fuel - 1)

\* lines 163-218 with the start step (lines 191-206) left out
reconstructPathNoStart(cameFrom, cache, startId, goalId, totalDistance) ==
    LET walk == WalkBack(cameFrom, cache, goalId, startId, << >>,
                         Cardinality(DOMAIN cameFrom))
    IN IF walk.kind # "ok" \/ ~MapHas(cache, startId)
       THEN IF walk.kind = "loop" THEN Diverges ELSE InternalFault
       ELSE [kind |-> "path", code |-> UnknownCode, path |-> Reverse(walk.path),
             total_distance |-> Round2(totalDistance), num_nodes |-> Len(walk.path)]

\* lines 163-218
reconstructPath(cameFrom, cache, startId, goalId, totalDistance) ==
    LET walk == WalkBack(cameFrom, cache, goalId, startId, << >>,
                         Cardinality(DOMAIN cameFrom))
    IN IF walk.kind # "ok" \/ ~MapHas(cache, startId)
       THEN IF walk.kind = "loop" THEN Diverges ELSE InternalFault
       ELSE LET path == Reverse(Append(walk.path,
                            PathStep(cache[startId], 0, NullAngle, FALSE)))
            IN [kind |-> "path", code |-> UnknownCode, path |-> path,
                total_distance |-> Round2(totalDistance), num_nodes |-> Len(path)]

\* ------------------------------------------------------------------- search
\* lines 115-122: the A* data structures (fScore is written and never read)
SearchInit(startId) ==
    [openSet |-> HeapPush(<< >>, 0, startId), cameFrom |-> EmptyMap,
     gScore |-> MapSet(EmptyMap, startId, 0), visited |-> {},
     pushes |-> 1, result |-> NoResult]

\* no search is running
NoSearch ==
    [openSet |-> << >>, cameFrom |-> EmptyMap, gScore |-> EmptyMap, visited |-> {},
     pushes |-> 0, result |-> NoResult]

NoQuery ==
    [startCode |-> UnknownCode, goalCode |-> UnknownCode, avoidStairs |-> FALSE,
     startId |-> NoNode, goalId |-> NoNode]

\* line 141 with the staircase test lost
SkipEntryNever(avoidStairs, edgeInfo) == FALSE

\* line 141
SkipEntry(avoidStairs, edgeInfo) == avoidStairs /\ edgeInfo.is_staircase

\* line 146 with the test lost: every neighbour is rewritten
ImprovesAlways(gScore, neighborId, tentativeG) == TRUE

\* line 146 with the comparison of the distances lost
ImprovesUnseenOnly(gScore, neighborId, tentativeG) == ~MapHas(gScore, neighborId)

\* line 146
Improves(gScore, neighborId, tentativeG) ==
    ~MapHas(gScore, neighborId) \/ tentativeG < gScore[neighborId]

\* lines 137-154: the loop over the neighbours of currentId
RECURSIVE Relax(_, _, _, _, _, _)
Relax(cache, goalId, avoidStairs, currentId, neighbors, st) ==
    IF neighbors = << >> THEN st
    ELSE LET edgeInfo == Head(neighbors)
             neighborId == edgeInfo.to
             tentativeG == st.gScore[currentId] + edgeInfo.distance
             st2 == IF SkipEntry(avoidStairs, edgeInfo) THEN st
                    ELSE IF Improves(st.gScore, neighborId, tentativeG)
                    THEN [st EXCEPT
                            !.cameFrom = MapSet(@, neighborId,
                                                [prev |-> currentId, edge |-> edgeInfo]),
                            !.gScore = MapSet(@, neighborId, tentativeG),
                            !.openSet = HeapPush(@, tentativeG
                                          + heuristic(cache, neighborId, goalId), neighborId),
                            !.pushes = @ + 1]
                    ELSE st
         IN Relax(cache, goalId, avoidStairs, currentId, Tail(neighbors), st2)

\* line 136: this.graph.get(currentId) || []
Neighbors(graph, currentId) == IF MapHas(graph, currentId) THEN graph[currentId] ELSE << >>

\* lines 124-157 with line 128 left out: a popped node is expanded whether or
\* not it is in the visited set
SearchStepNoVisited(eng, startId, goalId, avoidStairs, st) ==
    IF st.openSet = << >> THEN [st EXCEPT !.result = NoPathFound]
    ELSE LET currentId == HeapPopMin(st.openSet).value
             marked == [st EXCEPT !.openSet = HeapPopRest(@),
                                  !.visited = @ \cup {currentId}]
         IN IF currentId = goalId
            THEN [marked EXCEPT !.result =
                    reconstructPath(marked.cameFrom, eng.nodesCache, startId,
                                    goalId, marked.gScore[goalId])]
            ELSE Relax(eng.nodesCache, goalId, avoidStairs, currentId,
                       Neighbors(eng.graph, currentId), marked)

\* lines 124-157: one turn of the while loop (or its exit when the heap is empty)
SearchStep(eng, startId, goalId, avoidStairs, st) ==
    IF st.openSet = << >> THEN [st EXCEPT !.result = NoPathFound]
    ELSE LET currentId == HeapPopMin(st.openSet).value
             popped == [st EXCEPT !.openSet = HeapPopRest(@)]
         IN IF currentId \in st.visited THEN popped
            ELSE LET marked == [popped EXCEPT !.visited = @ \cup {currentId}]
                 IN IF currentId = goalId
                    THEN [marked EXCEPT !.result =
                            reconstructPath(marked.cameFrom, eng.nodesCache, startId,
                                            goalId, marked.gScore[goalId])]
                    ELSE Relax(eng.nodesCache, goalId, avoidStairs, currentId,
                               Neighbors(eng.graph, currentId), marked)

RECURSIVE RunSearch(_, _, _, _, _)
RunSearch(eng, startId, goalId, avoidStairs, st) ==
    IF st.result # NoResult THEN st
    ELSE RunSearch(eng, startId, goalId, avoidStairs,
                   SearchStep(eng, startId, goalId, avoidStairs, st))

\* lines 105-110 with the two checks in the other order
FindPathRunGoalFirst(eng, startCode, goalCode, startId, goalId, avoidStairs) ==
    IF goalId = NoNode THEN [result |-> GoalNotFound(goalCode), pushes |-> 0]
    ELSE IF startId = NoNode THEN [result |-> StartNotFound(startCode), pushes |-> 0]
    ELSE LET st == RunSearch(eng, startId, goalId, avoidStairs, SearchInit(startId))
         IN [result |-> st.result, pushes |-> st.pushes]

\* lines 105-157: findPath after its two lookups (NoNode = findOne gave null):
\* the result, and the number of heap pushes made
FindPathRun(eng, startCode, goalCode, startId, goalId, avoidStairs) ==
    IF startId = NoNode THEN [result |-> StartNotFound(startCode), pushes |-> 0]
    ELSE IF goalId = NoNode THEN [result |-> GoalNotFound(goalCode), pushes |-> 0]
    ELSE LET st == RunSearch(eng, startId, goalId, avoidStairs, SearchInit(startId))
         IN [result |-> st.result, pushes |-> st.pushes]

\* ------------------------------------------------------ compassToDirection
\* angles handed to compassToDirection are in 1/AngleScale degrees, so that
\* 11.25, 22.5 and 359.9 are whole numbers
AngleScale == 100
SectorWidth == 2250
HalfSector == 1125
RoseSize == 16

\* lines 254-259
CompassRose ==
    <<"North", "North-Northeast", "Northeast", "East-Northeast",
      "East", "East-Southeast", "Southeast", "South-Southeast",
      "South", "South-Southwest", "Southwest", "West-Southwest",
      "West", "West-Northwest", "Northwest", "North-Northwest">>

\* line 260 with the % 16 left out
CompassIndexNoWrap(angle) == (angle + HalfSector) \div SectorWidth

\* line 260: Math.floor((angle + 11.25) / 22.5) % 16
CompassIndex(angle) == ((angle + HalfSector) \div SectorWidth) % RoseSize

\* lines 253-262; directions[index] of an index past the array is undefined
compassToDirection(angle) ==
    IF CompassIndex(angle) + 1 \in DOMAIN CompassRose
    THEN CompassRose[CompassIndex(angle) + 1] ELSE "undefined"

\* ------------------------------------------------------------ getDirections
\* Number.prototype.toFixed(0) of an angle given in 1/AngleScale degrees
ToFixed0(angle) == (angle + AngleScale \div 2) \div AngleScale

\* Number.prototype.toFixed(1) of a distance: tenths of a metre
ToFixed1(d) == (d * 10 + Scale \div 2) \div Scale

\* compass_angle of a step is held in whole degrees
StepAngle(step) == step.compass_angle * AngleScale

\* line 231: the template of the first line.  A line is held as the values
\* its template is filled with; the node code stands for name and building.
StartLine(step) ==
    [line |-> "Start at", compassDir |-> "", angle |-> 0, distance |-> 0,
     stairInfo |-> "", name |-> step.node_code, floor_level |-> step.floor_level]

\* lines 233-239: the template of a later line
GoLine(step) ==
    [line |-> "Go",
     compassDir |-> IF step.compass_angle # NullAngle
                    THEN compassToDirection(StepAngle(step)) ELSE "forward",
     angle |-> IF step.compass_angle # NullAngle THEN ToFixed0(StepAngle(step)) ELSE 0,
     distance |-> ToFixed1(step.distance_from_prev),
     stairInfo |-> IF step.is_staircase THEN " via stairs" ELSE "",
     name |-> step.node_code, floor_level |-> step.floor_level]

\* lines 229-240 with the i === 0 branch lost
DirectionLineAllGo(step, i) == GoLine(step)

\* lines 229-240: the body of the loop for step i (i = 1 is the first step)
DirectionLine(step, i) == IF i = 1 THEN StartLine(step) ELSE GoLine(step)

\* lines 223-248 after findPath has answered: an error result, a throw and a
\* run that never ends pass through; a found path gains the field directions
getDirections(result) ==
    IF result.kind # "path" THEN result
    ELSE [f \in DOMAIN result \cup {"directions"} |->
            IF f = "directions"
            THEN [i \in 1..Len(result.path) |-> DirectionLine(result.path[i], i)]
            ELSE result[f]]

\* ------------------------------------------------------------ EventService
\* a datetime is the instant it denotes; null, undefined and '' are NoDate
NoDate == 0

\* the event id of a call that names no event
NoEvent == 0

\* the columns of an events row that the date rule reads
EventRow(start, end) == [start_datetime |-> start, end_datetime |-> end]

\* EventService.js 168-169: start_datetime && end_datetime &&
\* new Date(start_datetime) >= new Date(end_datetime)
CreateDatesInvalid(start, end) == start # NoDate /\ end # NoDate /\ start >= end

\* lines 215-216 and 226-227 with the stored value never taken
NewDateGivenOnly(given, stored) == given

\* lines 215-216 and 226-227: given ? new Date(given) : event.<stored>
NewDate(given, stored) == IF given # NoDate THEN given ELSE stored

\* line 217: newStart && newEnd && newStart >= newEnd
UpdateDatesInvalid(newStart, newEnd) ==
    newStart # NoDate /\ newEnd # NoDate /\ newStart >= newEnd

\* the table with a row put at id
PutRow(rows, id, row) ==
    [i \in DOMAIN rows \cup {id} |-> IF i = id THEN row ELSE rows[i]]

\* the table without the row at id
DropRow(rows, id) == [i \in DOMAIN rows \ {id} |-> rows[i]]

\* ---------------------------------------------------------------- the store
\* Nodes.findOne({ where: { node_code } }): the node id, NoNode for null
FindOne(nodes, code) ==
    IF \E n \in nodes : n.node_code = code
    THEN (CHOOSE n \in nodes : n.node_code = code).node_id
    ELSE NoNode

VARIABLES
    dbNodes,             \* the nodes table: a set of node records
    dbEdges,             \* the edges table: edge records in edge_id order
    autoinc,             \* the next node_id and edge_id the tables hand out
    engines,             \* the PathFinder objects alive, by slot
    pathfinderInstance,  \* the module's singleton: a slot, or Null
    calls,               \* the findPath calls: position, arguments, lookups, result
    writer,              \* the data-layer operation in progress
    query,               \* search runs: the codes, avoidStairs and the ids found
    search,              \* search runs: the A* data structures, turn by turn
    narration,           \* an angle and its compass name; a result and its directions
    events,              \* the events table and its auto-increment
    eventCalls,          \* the EventService call that answered last, and the
                         \* updates whose write is in flight
    minHeap              \* a MinHeap driven on its own: its array, the last call
                         \* and, for the properties, the entries it should hold

vars == <<dbNodes, dbEdges, autoinc, engines, pathfinderInstance, calls, writer,
          query, search, narration, events, eventCalls, minHeap>>

storeVars == <<dbNodes, dbEdges, autoinc>>
searchVars == <<query, search, narration, events, eventCalls, minHeap>>

MaxEvents == 2
MaxTime == 2
MaxEventCalls == 2
EventIds == 1..MaxEvents
Times == 1..MaxTime
Dates == Times \cup {NoDate}

\* no EventService call has answered since the table last changed
IdleEventCall ==
    [op |-> "none", eventId |-> NoEvent, start |-> NoDate, end |-> NoDate,
     nodeFound |-> TRUE, outcome |-> "none"]

\* lines 278-280: new MinHeap(), nothing called yet
NewHeap ==
    [heap |-> << >>, op |-> "new", returned |-> NullEntry, isEmpty |-> TRUE,
     held |-> EmptyBag]

\* an empty events table and no call
EventsIdle ==
    /\ events = [rows |-> << >>, nextId |-> 1]
    /\ eventCalls = [last |-> IdleEventCall, pending |-> {}]

\* nothing has been narrated
NoNarration ==
    [angle |-> 0, direction |-> "none", found |-> NoResult, returned |-> NoResult]

\* -------------------------------------------------------- bounds of the runs
MaxCalls == 2
MaxStoreNodes == 2
MaxStoreEdges == 1

CallIds == 1..MaxCalls
\* a call holds at most one engine, and the singleton one more
InstIds == 1..(MaxCalls + 1)
Null == 0

\* what the data layer offers for an edge it creates
StoreDistances == {1004}
StoreAngles == {270}
StoreFloors == {0}
\* the codes a caller may pass
Codes == {NodeCode(n) : n \in 1..MaxStoreNodes} \cup {UnknownCode}

\* ----------------------------------------------------------------- engines
\* A slot holds the PathFinder fields and, for the properties, what the last
\* finished build of the object had fetched, whether two of its builds
\* overlapped, and whether reset() ran on it.
FreshSlot ==
    [nodesCache |-> EmptyMap, graph |-> EmptyMap, initialized |-> FALSE,
     fetchedNodes |-> {}, fetchedEdges |-> << >>, overlapped |-> FALSE,
     resetSeen |-> FALSE]

\* lines 25-26 and 269-270: both maps cleared
ClearMaps(eng) == [eng EXCEPT !.nodesCache = EmptyMap, !.graph = EmptyMap]

\* lines 267-271 with line 268 left out
resetKeepsBuilt(eng) == [ClearMaps(eng) EXCEPT !.resetSeen = TRUE]

\* lines 267-271: reset()
reset(eng) == [ClearMaps(eng) EXCEPT !.initialized = FALSE, !.resetSeen = TRUE]

IdleCall ==
    [pc |-> "idle", inst |-> Null, startCode |-> UnknownCode, goalCode |-> UnknownCode,
     avoidStairs |-> FALSE, pending |-> Null, startId |-> NoNode, goalId |-> NoNode,
     result |-> NoResult, pushes |-> 0,
     alone |-> FALSE, snap |-> Null, resetHit |-> FALSE]

InFlight(c) == calls[c].pc \notin {"idle", "done"}
Building(c) == calls[c].pc \in {"nodes_q", "nodes_r", "edges_q", "edges_r"}
PastBuild(c) == calls[c].pc \in {"start_q", "goal_q", "goal_r"}

Referenced(i) == i = pathfinderInstance \/ \E c \in CallIds : calls[c].inst = i

\* every call begun and not yet returned (but `except`) has overlapped with the
\* step now taken
Disturb(cs, except) ==
    [c \in CallIds |-> IF c # except /\ cs[c].pc # "idle"
                       THEN [cs[c] EXCEPT !.alone = FALSE] ELSE cs[c]]

SnapOf(eng) == [nodesCache |-> eng.nodesCache, graph |-> eng.graph]

NoSnap == [nodesCache |-> EmptyMap, graph |-> EmptyMap]

\* the data-layer operation in progress and, for the properties, the built
\* snapshot the last resetPathfinder() dropped (until the next call returns)
IdleWriter == [pc |-> "idle", node |-> NoNode, dropped |-> NoSnap]

Init ==
    /\ dbNodes = {}
    /\ dbEdges = << >>
    /\ autoinc = [node |-> 1, edge |-> 1]
    /\ engines = [i \in InstIds |-> FreshSlot]
    /\ pathfinderInstance = Null
    /\ calls = [c \in CallIds |-> IdleCall]
    /\ writer = IdleWriter
    /\ query = NoQuery
    /\ search = NoSearch
    /\ narration = NoNarration
    /\ EventsIdle
    /\ minHeap = NewHeap

\* ------------------------------------------------------------ a findPath call
\* An await is two steps: the database answers the query (the table as it is
\* then), and later the code resumes with that answer and runs on to its next
\* await.  An argument is drawn at the step that first reads it.

\* lines 333-338 getPathfinder, then lines 96-99: on an engine not initialized
\* buildGraph starts, clears both maps (lines 25-26) and awaits Nodes.findAll;
\* on an initialized one findPath awaits its first findOne.
FindPathStart(c) ==
    /\ calls[c].pc = "idle"
    /\ LET i == IF pathfinderInstance # Null THEN pathfinderInstance
                ELSE CHOOSE j \in InstIds :
                       ~Referenced(j) /\ \A k \in InstIds : ~Referenced(k) => j <= k
           eng == IF pathfinderInstance # Null THEN engines[i] ELSE FreshSlot
           quiet == writer.pc = "idle" /\ \A d \in CallIds : ~InFlight(d)
       IN /\ pathfinderInstance' = i
          /\ IF eng.initialized
             THEN /\ engines' = [engines EXCEPT ![i] = eng]
                  /\ calls' = [Disturb(calls, c) EXCEPT ![c] =
                                 [IdleCall EXCEPT !.pc = "start_q", !.inst = i,
                                                  !.alone = quiet, !.snap = SnapOf(eng)]]
             ELSE /\ engines' = [engines EXCEPT ![i] =
                                   [ClearMaps(eng) EXCEPT !.overlapped =
                                       @ \/ \E d \in CallIds : calls[d].inst = i /\ Building(d)]]
                  /\ calls' = [Disturb(calls, c) EXCEPT ![c] =
                                 [IdleCall EXCEPT !.pc = "nodes_q", !.inst = i,
                                                  !.alone = quiet]]
    /\ UNCHANGED <<storeVars, writer, searchVars>>

\* the database answers Nodes.findAll()
DbFindAllNodes(c) ==
    /\ calls[c].pc = "nodes_q"
    /\ calls' = [calls EXCEPT ![c].pc = "nodes_r", ![c].pending = dbNodes]
    /\ UNCHANGED <<storeVars, engines, pathfinderInstance, writer, searchVars>>

\* line 29 resumes: lines 30-33, then Edges.findAll is awaited
ResumeNodes(c) ==
    /\ calls[c].pc = "nodes_r"
    /\ engines' = [engines EXCEPT ![calls[c].inst] =
                     [CacheNodes(@, calls[c].pending) EXCEPT
                        !.fetchedNodes = calls[c].pending]]
    /\ calls' = [calls EXCEPT ![c].pc = "edges_q", ![c].pending = Null]
    /\ UNCHANGED <<storeVars, pathfinderInstance, writer, searchVars>>

\* the database answers Edges.findAll({ where: { is_active: true } })
DbFindAllEdges(c) ==
    /\ calls[c].pc = "edges_q"
    /\ calls' = [calls EXCEPT ![c].pc = "edges_r", ![c].pending = ActiveEdges(dbEdges)]
    /\ UNCHANGED <<storeVars, engines, pathfinderInstance, writer, searchVars>>

\* line 36 resumes: lines 44-72, buildGraph returns, and findPath awaits
\* findOne for startCode
ResumeEdges(c) ==
    /\ calls[c].pc = "edges_r"
    /\ LET i == calls[c].inst
           built == [engines[i] EXCEPT !.graph = AddEdges(@, calls[c].pending),
                                       !.initialized = TRUE,
                                       !.fetchedEdges = calls[c].pending]
       IN /\ engines' = [engines EXCEPT ![i] = built]
          /\ calls' = [calls EXCEPT ![c].pc = "start_q", ![c].pending = Null,
                                    ![c].snap = SnapOf(built)]
    /\ UNCHANGED <<storeVars, pathfinderInstance, writer, searchVars>>

\* the database answers findOne for startCode; line 102 resumes and line 103
\* awaits findOne for goalCode, with no other effect
DbFindStart(c) ==
    /\ calls[c].pc = "start_q"
    /\ \E code \in Codes :
         calls' = [calls EXCEPT ![c].pc = "goal_q", ![c].startCode = code,
                                ![c].startId = FindOne(dbNodes, code)]
    /\ UNCHANGED <<storeVars, engines, pathfinderInstance, writer, searchVars>>

\* the database answers findOne for goalCode
DbFindGoal(c) ==
    /\ calls[c].pc = "goal_q"
    /\ \E code \in Codes :
         calls' = [calls EXCEPT ![c].pc = "goal_r", ![c].goalCode = code,
                                ![c].goalId = FindOne(dbNodes, code)]
    /\ UNCHANGED <<storeVars, engines, pathfinderInstance, writer, searchVars>>

\* lines 105-157 with the staircase entries taken out of the adjacency lists
\* for an avoidStairs search instead of being skipped at line 141
ResumeGoalDroppingStairs(c) ==
    /\ calls[c].pc = "goal_r"
    /\ \E avoid \in BOOLEAN :
         LET i == calls[c].inst
             kept == [n \in DOMAIN engines[i].graph |->
                        SelectSeq(engines[i].graph[n], LAMBDA e : ~(avoid /\ e.is_staircase))]
             eng == [engines[i] EXCEPT !.graph = kept]
             run == FindPathRun(eng, calls[c].startCode, calls[c].goalCode,
                                calls[c].startId, calls[c].goalId, avoid)
         IN /\ calls' = [calls EXCEPT
                           ![c].pc = "done", ![c].avoidStairs = avoid,
                           ![c].result = run.result, ![c].pushes = run.pushes]
            /\ engines' = [engines EXCEPT ![i] = eng]
    /\ UNCHANGED <<storeVars, pathfinderInstance, writer, searchVars>>

\* line 103 resumes: lines 105-157, the checks and the whole search, which
\* await nothing
ResumeGoal(c) ==
    /\ calls[c].pc = "goal_r"
    /\ \E avoid \in BOOLEAN :
         LET run == FindPathRun(engines[calls[c].inst], calls[c].startCode,
                                calls[c].goalCode, calls[c].startId, calls[c].goalId,
                                avoid)
         IN calls' = [calls EXCEPT
                        ![c].pc = "done", ![c].avoidStairs = avoid,
                        ![c].result = run.result, ![c].pushes = run.pushes]
    /\ UNCHANGED <<storeVars, engines, pathfinderInstance, writer, searchVars>>

\* the caller has its answer; a PathFinder nothing refers to any more is dropped
Return(c) ==
    /\ calls[c].pc = "done"
    /\ calls' = [calls EXCEPT ![c] = IdleCall]
    /\ engines' = [i \in InstIds |->
                     IF i # pathfinderInstance
                        /\ \A d \in CallIds \ {c} : calls[d].inst # i
                     THEN FreshSlot ELSE engines[i]]
    /\ writer' = [writer EXCEPT !.dropped = NoSnap]
    /\ UNCHANGED <<storeVars, pathfinderInstance, searchVars>>

CallStep(c) ==
    \/ FindPathStart(c)
    \/ DbFindAllNodes(c)
    \/ ResumeNodes(c)
    \/ DbFindAllEdges(c)
    \/ ResumeEdges(c)
    \/ DbFindStart(c)
    \/ DbFindGoal(c)
    \/ ResumeGoal(c)
    \/ Return(c)

\* ------------------------------------------------------------ the data layer
\* Nodes.create
CreateNode ==
    /\ writer.pc = "idle"
    /\ autoinc.node <= MaxStoreNodes
    /\ \E f \in StoreFloors :
         dbNodes' = dbNodes \cup {NodeRec(autoinc.node, f)}
    /\ autoinc' = [autoinc EXCEPT !.node = @ + 1]
    /\ writer' = [writer EXCEPT !.pc = "committed"]
    /\ calls' = Disturb(calls, Null)
    /\ UNCHANGED <<dbEdges, engines, pathfinderInstance, searchVars>>

NodeIdsOf(nodes) == {n.node_id : n \in nodes}

\* EdgeService.createEdge lines 55-74: both nodes exist, Edges.create
CreateEdge ==
    /\ writer.pc = "idle"
    /\ autoinc.edge <= MaxStoreEdges
    /\ \E from \in NodeIdsOf(dbNodes), to \in NodeIdsOf(dbNodes), d \in StoreDistances,
          ang \in StoreAngles, st \in BOOLEAN, act \in BOOLEAN :
         /\ from # to
         /\ dbEdges' = Append(dbEdges, EdgeRec(autoinc.edge, from, to, d, ang, st, act))
    /\ autoinc' = [autoinc EXCEPT !.edge = @ + 1]
    /\ writer' = [writer EXCEPT !.pc = "committed"]
    /\ calls' = Disturb(calls, Null)
    /\ UNCHANGED <<dbNodes, engines, pathfinderInstance, searchVars>>

\* EdgeService.updateEdge lines 112-114 with is_active given
UpdateEdge ==
    /\ writer.pc = "idle"
    /\ \E k \in 1..Len(dbEdges), act \in BOOLEAN :
         /\ dbEdges[k].is_active # act
         /\ dbEdges' = [dbEdges EXCEPT ![k].is_active = act]
    /\ writer' = [writer EXCEPT !.pc = "committed"]
    /\ calls' = Disturb(calls, Null)
    /\ UNCHANGED <<dbNodes, autoinc, engines, pathfinderInstance, searchVars>>

\* EdgeService.deleteEdge line 132
DeleteEdge ==
    /\ writer.pc = "idle"
    /\ \E k \in 1..Len(dbEdges) :
         dbEdges' = SelectSeq(dbEdges, LAMBDA e : e.edge_id # dbEdges[k].edge_id)
    /\ writer' = [writer EXCEPT !.pc = "committed"]
    /\ calls' = Disturb(calls, Null)
    /\ UNCHANGED <<dbNodes, autoinc, engines, pathfinderInstance, searchVars>>

\* NodeService.deleteNode lines 196-203: the edges of the node go first
DeleteNodeEdges ==
    /\ writer.pc = "idle"
    /\ \E n \in NodeIdsOf(dbNodes) :
         /\ dbEdges' = SelectSeq(dbEdges,
                         LAMBDA e : e.from_node_id # n /\ e.to_node_id # n)
         /\ writer' = [writer EXCEPT !.pc = "deleting", !.node = n]
    /\ calls' = Disturb(calls, Null)
    /\ UNCHANGED <<dbNodes, autoinc, engines, pathfinderInstance, searchVars>>

\* NodeService.deleteNode line 226: node.destroy()
DeleteNodeRow ==
    /\ writer.pc = "deleting"
    /\ dbNodes' = {n \in dbNodes : n.node_id # writer.node}
    /\ writer' = [writer EXCEPT !.pc = "committed", !.node = NoNode]
    /\ calls' = Disturb(calls, Null)
    /\ UNCHANGED <<dbEdges, autoinc, engines, pathfinderInstance, searchVars>>

\* lines 340-345 with nothing done
ResetPathfinderKeep(engs, inst) == [engines |-> engs, instance |-> inst]

\* lines 340-345: the value of pathfinderInstance and of the engines after
\* resetPathfinder()
ResetPathfinderState(engs, inst) ==
    [engines |-> IF inst # Null THEN [engs EXCEPT ![inst] = reset(@)] ELSE engs,
     instance |-> Null]

\* the data-layer operation calls resetPathfinder() after its commit
ResetPathfinder ==
    /\ writer.pc = "committed"
    /\ LET after == ResetPathfinderState(engines, pathfinderInstance)
           used(i) == \E c \in CallIds : calls[c].inst = i
       IN /\ pathfinderInstance' = after.instance
          /\ engines' = [i \in InstIds |->
                           IF i # after.instance /\ ~used(i) THEN FreshSlot
                           ELSE after.engines[i]]
          /\ calls' = [c \in CallIds |->
                         IF calls[c].inst # Null /\ calls[c].inst = pathfinderInstance
                            /\ InFlight(c)
                         THEN [calls[c] EXCEPT !.alone = FALSE,
                                               !.resetHit = @ \/ PastBuild(c)]
                         ELSE calls[c]]
    /\ writer' = [writer EXCEPT
                    !.pc = "idle",
                    !.dropped = IF pathfinderInstance # Null
                                   /\ engines[pathfinderInstance].initialized
                                THEN SnapOf(engines[pathfinderInstance]) ELSE @]
    /\ UNCHANGED <<storeVars, searchVars>>

\* one caller at a time beside the data layer
Callers == {1}

Next ==
    \/ \E c \in Callers : CallStep(c)
    \/ CreateNode
    \/ CreateEdge
    \/ UpdateEdge
    \/ DeleteEdge
    \/ DeleteNodeEdges
    \/ DeleteNodeRow
    \/ ResetPathfinder

Spec == Init /\ [][Next]_vars

\* ---------------------------------------------- overlapping calls, store fixed
StoreNodeTables == {{NodeRec(n, fl[n]) : n \in 1..k} : k \in 0..MaxStoreNodes, fl \in [1..MaxStoreNodes -> StoreFloors]}

StoreEdgeLists(nodes) ==
    {<< >>} \cup
    {<<EdgeRec(1, from, to, d, ang, st, act)>> :
        from \in NodeIdsOf(nodes), to \in NodeIdsOf(nodes), d \in StoreDistances,
        ang \in StoreAngles, st \in BOOLEAN, act \in BOOLEAN}

InitOverlap ==
    /\ dbNodes \in StoreNodeTables
    /\ dbEdges \in {l \in StoreEdgeLists(dbNodes) :
                      \A k \in 1..Len(l) : l[k].from_node_id # l[k].to_node_id}
    /\ autoinc = [node |-> Cardinality(dbNodes) + 1, edge |-> Len(dbEdges) + 1]
    /\ engines = [i \in InstIds |-> FreshSlot]
    /\ pathfinderInstance = Null
    /\ calls = [c \in CallIds |-> IdleCall]
    /\ writer = IdleWriter
    /\ query = NoQuery
    /\ search = NoSearch
    /\ narration = NoNarration
    /\ EventsIdle
    /\ minHeap = NewHeap

NextOverlap == \E c \in CallIds : CallStep(c)

SpecOverlap == InitOverlap /\ [][NextOverlap]_vars

\* ------------------------------------------------- the data provider fails
\* a rejected await: the error thrown out of buildGraph and out of findPath
ProviderError == [NoResult EXCEPT !.kind = "provider_error"]

\* line 29: Nodes.findAll() rejects; buildGraph throws after lines 25-26 and
\* findPath (line 98) throws with it
NodesFetchFails(c) ==
    /\ calls[c].pc = "nodes_q"
    /\ calls' = [calls EXCEPT ![c].pc = "done", ![c].result = ProviderError]
    /\ UNCHANGED <<storeVars, engines, pathfinderInstance, writer, searchVars>>

\* line 36: Edges.findAll() rejects; buildGraph throws after lines 30-33 have
\* run, before line 72
EdgesFetchFails(c) ==
    /\ calls[c].pc = "edges_q"
    /\ calls' = [calls EXCEPT ![c].pc = "done", ![c].result = ProviderError]
    /\ UNCHANGED <<storeVars, engines, pathfinderInstance, writer, searchVars>>

\* NodeService.createNode line 93 (mobile route line 467): Nodes.create has
\* committed and the operation awaits generateQRCode (line 117, route line 485)
CreateNodeAwaitingQR ==
    /\ writer.pc = "idle"
    /\ autoinc.node <= MaxStoreNodes
    /\ \E f \in StoreFloors :
         dbNodes' = dbNodes \cup {NodeRec(autoinc.node, f)}
    /\ autoinc' = [autoinc EXCEPT !.node = @ + 1]
    /\ writer' = [writer EXCEPT !.pc = "qr"]
    /\ calls' = Disturb(calls, Null)
    /\ UNCHANGED <<dbEdges, engines, pathfinderInstance, searchVars>>

\* generateQRCode resolves: lines 118-120 go on to resetPathfinder()
GenerateQRCodeDone ==
    /\ writer.pc = "qr"
    /\ writer' = [writer EXCEPT !.pc = "committed"]
    /\ UNCHANGED <<storeVars, engines, pathfinderInstance, calls, searchVars>>

\* generateQRCode throws (qrcode.cloudinary.js lines 42-45): createNode throws
\* with it and line 120 is not reached
GenerateQRCodeFails ==
    /\ writer.pc = "qr"
    /\ writer' = [writer EXCEPT !.pc = "idle"]
    /\ UNCHANGED <<storeVars, engines, pathfinderInstance, calls, searchVars>>

NextFail ==
    \/ Next
    \/ \E c \in Callers : NodesFetchFails(c)
    \/ \E c \in Callers : EdgesFetchFails(c)
    \/ CreateNodeAwaitingQR
    \/ GenerateQRCodeDone
    \/ GenerateQRCodeFails

SpecFail == Init /\ [][NextFail]_vars

\* ------------------------------------------- one build, nothing interleaved
MaxBuildNodes == 3
MaxBuildEdges == 2

BuildNodeTables ==
    {{NodeRec(n, fl[n]) : n \in 1..k} :
        k \in 0..MaxBuildNodes, fl \in [1..MaxBuildNodes -> StoreFloors]}

\* what an edge row may hold: its two nodes, distance, compass_angle,
\* is_staircase and is_active
BuildEdgeChoices(nodes) ==
    {ch \in NodeIdsOf(nodes) \X NodeIdsOf(nodes) \X StoreDistances \X StoreAngles
              \X BOOLEAN \X BOOLEAN :
        ch[1] # ch[2]}

\* the edge tables of at most MaxBuildEdges rows, edge_id in row order
BuildEdgeLists(nodes) ==
    {[i \in 1..k |-> EdgeRec(i, chs[i][1], chs[i][2], chs[i][3], chs[i][4],
                            chs[i][5], chs[i][6])] :
        k \in 0..MaxBuildEdges, chs \in [1..MaxBuildEdges -> BuildEdgeChoices(nodes)]}

InitBuild ==
    /\ dbNodes \in BuildNodeTables
    /\ dbEdges \in IF Cardinality(dbNodes) < 2 THEN {<< >>} ELSE BuildEdgeLists(dbNodes)
    /\ autoinc = [node |-> Cardinality(dbNodes) + 1, edge |-> Len(dbEdges) + 1]
    /\ engines = [i \in InstIds |-> FreshSlot]
    /\ pathfinderInstance = 1
    /\ calls = [c \in CallIds |-> IdleCall]
    /\ writer = IdleWriter
    /\ query = NoQuery
    /\ search = NoSearch
    /\ narration = NoNarration
    /\ EventsIdle
    /\ minHeap = NewHeap

\* lines 24-73 run from the first line to the last on the store as it is
BuildTurn ==
    /\ ~engines[1].initialized
    /\ LET built == BuildGraph(dbNodes, dbEdges)
       IN engines' = [engines EXCEPT ![1] =
                        [FreshSlot EXCEPT !.nodesCache = built.nodesCache,
                                          !.graph = built.graph,
                                          !.initialized = built.initialized,
                                          !.fetchedNodes = dbNodes,
                                          !.fetchedEdges = ActiveEdges(dbEdges)]]
    /\ UNCHANGED <<storeVars, pathfinderInstance, calls, writer, searchVars>>

NextBuild == BuildTurn

SpecBuild == InitBuild /\ [][NextBuild]_vars

\* --------------------------------------------------- directions of a query
\* the codes asked for: those of the nodes a store may hold, and one of none
BuildCodes == {NodeCode(n) : n \in 1..MaxBuildNodes} \cup {UnknownCode}

\* a store as InitBuild draws it, and the arguments of one getDirections call
InitDirections ==
    /\ dbNodes \in BuildNodeTables
    /\ dbEdges \in IF Cardinality(dbNodes) < 2 THEN {<< >>} ELSE BuildEdgeLists(dbNodes)
    /\ autoinc = [node |-> Cardinality(dbNodes) + 1, edge |-> Len(dbEdges) + 1]
    /\ engines = [i \in InstIds |-> FreshSlot]
    /\ pathfinderInstance = 1
    /\ calls = [c \in CallIds |-> IdleCall]
    /\ writer = IdleWriter
    /\ \E s \in BuildCodes, g \in BuildCodes, a \in BOOLEAN :
         query = [NoQuery EXCEPT !.startCode = s, !.goalCode = g, !.avoidStairs = a]
    /\ search = NoSearch
    /\ narration = NoNarration
    /\ EventsIdle
    /\ minHeap = NewHeap

\* pathfinding.js 223-248 with the findPath it awaits (96-158) and the build
\* that does (24-73), nothing else running in between
GetDirectionsTurn ==
    /\ narration.returned = NoResult
    /\ LET built == BuildGraph(dbNodes, dbEdges)
           eng == [FreshSlot EXCEPT !.nodesCache = built.nodesCache,
                                    !.graph = built.graph,
                                    !.initialized = built.initialized,
                                    !.fetchedNodes = dbNodes,
                                    !.fetchedEdges = ActiveEdges(dbEdges)]
           startId == FindOne(dbNodes, query.startCode)
           goalId == FindOne(dbNodes, query.goalCode)
           found == FindPathRun(eng, query.startCode, query.goalCode,
                                startId, goalId, query.avoidStairs).result
       IN /\ engines' = [engines EXCEPT ![1] = eng]
          /\ query' = [query EXCEPT !.startId = startId, !.goalId = goalId]
          /\ narration' = [narration EXCEPT !.found = found,
                                            !.returned = getDirections(found)]
    /\ UNCHANGED <<storeVars, pathfinderInstance, calls, writer, search, events, eventCalls, minHeap>>

NextDirections == GetDirectionsTurn

SpecDirections == InitDirections /\ [][NextDirections]_vars

\* ------------------------------------------------- inputs of the search runs
\* the node pairs an edge may join, in the order the edges are stored
Pairs == {p \in NodeIds \X NodeIds : p[1] < p[2]}
PairIndex(p) == (p[1] - 1) * MaxNodes + p[2]
SearchAngle == 270
Absent == <<0, FALSE>>
EdgeOptions == {Absent} \cup (Distances \X BOOLEAN)

RECURSIVE EdgesOf(_, _, _)
EdgesOf(choice, pairs, acc) ==
    IF pairs = {} THEN acc
    ELSE LET p == CHOOSE x \in pairs : \A y \in pairs : PairIndex(x) <= PairIndex(y)
         IN EdgesOf(choice, pairs \ {p},
                    IF choice[p] = Absent THEN acc
                    ELSE Append(acc, EdgeRec(Len(acc) + 1, p[1], p[2], choice[p][1],
                                             SearchAngle, choice[p][2], TRUE)))

EdgeLists ==
    {EdgesOf(c, Pairs, << >>) :
        c \in {c \in [Pairs -> EdgeOptions] :
                 Cardinality({p \in Pairs : c[p] # Absent}) <= MaxEdges}}

NodeTables == {{NodeRec(n, fl[n]) : n \in NodeIds} : fl \in [NodeIds -> Floors]}

Queries ==
    [startCode : {NodeCode(1)}, goalCode : {NodeCode(1), NodeCode(MaxNodes)},
     avoidStairs : BOOLEAN]

\* a store, the engine one uninterrupted buildGraph makes of it, and a query
\* whose two lookups have answered
SearchInitState ==
    /\ dbNodes \in NodeTables
    /\ dbEdges \in EdgeLists
    /\ autoinc = [node |-> MaxNodes + 1, edge |-> Len(dbEdges) + 1]
    /\ engines = [i \in InstIds |->
                    IF i = 1 THEN [FreshSlot EXCEPT
                                     !.nodesCache = BuildGraph(dbNodes, dbEdges).nodesCache,
                                     !.graph = BuildGraph(dbNodes, dbEdges).graph,
                                     !.initialized = TRUE,
                                     !.fetchedNodes = dbNodes,
                                     !.fetchedEdges = ActiveEdges(dbEdges)]
                    ELSE FreshSlot]
    /\ pathfinderInstance = 1
    /\ calls = [c \in CallIds |-> IdleCall]
    /\ writer = IdleWriter
    /\ \E q \in Queries :
         query = [startCode |-> q.startCode, goalCode |-> q.goalCode,
                  avoidStairs |-> q.avoidStairs,
                  startId |-> FindOne(dbNodes, q.startCode),
                  goalId |-> FindOne(dbNodes, q.goalCode)]
    /\ search = SearchInit(query.startId)
    /\ narration = NoNarration
    /\ EventsIdle
    /\ minHeap = NewHeap

\* one turn of the while loop of findPath
SearchTurn ==
    /\ search.result = NoResult
    /\ search' = SearchStep(engines[1], query.startId, query.goalId,
                            query.avoidStairs, search)
    /\ UNCHANGED <<storeVars, engines, pathfinderInstance, calls, writer, query, narration,
                   events, eventCalls, minHeap>>

SearchNext == SearchTurn

SpecSearch == SearchInitState /\ [][SearchNext]_vars

\* the search runs in which only node 2 may be upstairs
SearchInitFair ==
    /\ SearchInitState
    /\ \A n \in dbNodes : n.node_id # 2 => n.floor_level = 0

\* findPath is one synchronous loop (lines 124-155): once entered, its next turn
\* is always taken
SpecSearchFair == SearchInitFair /\ [][SearchNext]_vars /\ WF_vars(SearchTurn)

\* ------------------------------------------------- compass names of angles
\* the angles of [0, 360) in steps of 1/AngleScale degree
Angles == 0..(360 * AngleScale - 1)

InitCompass ==
    /\ dbNodes = {}
    /\ dbEdges = << >>
    /\ autoinc = [node |-> 1, edge |-> 1]
    /\ engines = [i \in InstIds |-> FreshSlot]
    /\ pathfinderInstance = Null
    /\ calls = [c \in CallIds |-> IdleCall]
    /\ writer = IdleWriter
    /\ query = NoQuery
    /\ search = NoSearch
    /\ \E angle \in Angles : narration = [NoNarration EXCEPT !.angle = angle]
    /\ EventsIdle
    /\ minHeap = NewHeap

\* compassToDirection(angle) is called
CompassTurn ==
    /\ narration.direction = "none"
    /\ narration' = [narration EXCEPT !.direction = compassToDirection(narration.angle)]
    /\ UNCHANGED <<storeVars, engines, pathfinderInstance, calls, writer, query, search,
                   events, eventCalls, minHeap>>

NextCompass == CompassTurn

SpecCompass == InitCompass /\ [][NextCompass]_vars

\* ------------------------------------------------------- the events table
pathVars == <<storeVars, engines, pathfinderInstance, calls, writer, query, search,
              narration, minHeap>>

InitEvents ==
    /\ dbNodes = {}
    /\ dbEdges = << >>
    /\ autoinc = [node |-> 1, edge |-> 1]
    /\ engines = [i \in InstIds |-> FreshSlot]
    /\ pathfinderInstance = Null
    /\ calls = [c \in CallIds |-> IdleCall]
    /\ writer = IdleWriter
    /\ query = NoQuery
    /\ search = NoSearch
    /\ narration = NoNarration
    /\ EventsIdle
    /\ minHeap = NewHeap

\* EventService.js 158-189: createEvent.  nodeFound is what Nodes.findByPk of
\* line 162 found; nothing of the call depends on the table, so the call is
\* one step.
CreateEvent ==
    /\ events.nextId <= MaxEvents
    /\ \E start \in Dates, end \in Dates, nodeFound \in BOOLEAN :
         LET call == [IdleEventCall EXCEPT !.op = "create", !.start = start,
                                           !.end = end, !.nodeFound = nodeFound]
         IN IF ~nodeFound
            THEN /\ eventCalls' = [eventCalls EXCEPT !.last =
                                     [call EXCEPT !.outcome = "node_error"]]
                 /\ UNCHANGED events
            ELSE IF CreateDatesInvalid(start, end)
            THEN /\ eventCalls' = [eventCalls EXCEPT !.last =
                                     [call EXCEPT !.outcome = "dates_error"]]
                 /\ UNCHANGED events
            ELSE /\ events' = [rows |-> PutRow(events.rows, events.nextId,
                                                EventRow(start, end)),
                               nextId |-> events.nextId + 1]
                 /\ eventCalls' = [eventCalls EXCEPT !.last =
                                     [call EXCEPT !.outcome = "created",
                                                  !.eventId = events.nextId]]
    /\ UNCHANGED pathVars

\* lines 197-230: updateEvent from Event.findByPk to the updateData it is about
\* to write.  nodeFound is FALSE when the node_id given differs from the
\* event's and Nodes.findByPk of line 207 found none.
UpdateEventFind ==
    /\ \E id \in EventIds, start \in Dates, end \in Dates, nodeFound \in BOOLEAN :
         LET call == [IdleEventCall EXCEPT !.op = "update", !.eventId = id,
                                           !.start = start, !.end = end,
                                           !.nodeFound = nodeFound]
         IN IF id \notin DOMAIN events.rows
            THEN eventCalls' = [eventCalls EXCEPT !.last = [call EXCEPT !.outcome = "null"]]
            ELSE LET event == events.rows[id]
                     newStart == NewDate(start, event.start_datetime)
                     newEnd == NewDate(end, event.end_datetime)
                 IN IF ~nodeFound
                    THEN eventCalls' = [eventCalls EXCEPT !.last =
                                          [call EXCEPT !.outcome = "node_error"]]
                    ELSE IF UpdateDatesInvalid(newStart, newEnd)
                    THEN eventCalls' = [eventCalls EXCEPT !.last =
                                          [call EXCEPT !.outcome = "dates_error"]]
                    ELSE /\ Cardinality(eventCalls.pending) < MaxEventCalls
                         /\ eventCalls' =
                              [last |-> [call EXCEPT !.outcome = "update_q"],
                               pending |-> eventCalls.pending \cup
                                   {[eventId |-> id,
                                     updateData |->
                                        EventRow(NewDate(start, event.start_datetime),
                                                 NewDate(end, event.end_datetime))]}]
    /\ UNCHANGED <<events, pathVars>>

\* line 232: event.update(updateData) reaches the table; a row deleted in the
\* meantime is not written
UpdateEventWrite ==
    /\ \E w \in eventCalls.pending :
         /\ events' = IF w.eventId \in DOMAIN events.rows
                      THEN [events EXCEPT !.rows = PutRow(events.rows, w.eventId,
                                                          w.updateData)]
                      ELSE events
         /\ eventCalls' = [last |-> IdleEventCall, pending |-> eventCalls.pending \ {w}]
    /\ UNCHANGED pathVars

\* lines 245-259: deleteEvent of a row that exists
DeleteEvent ==
    /\ \E id \in DOMAIN events.rows :
         events' = [events EXCEPT !.rows = DropRow(events.rows, id)]
    /\ eventCalls' = [eventCalls EXCEPT !.last = IdleEventCall]
    /\ UNCHANGED pathVars

NextEvents ==
    \/ CreateEvent
    \/ UpdateEventFind
    \/ UpdateEventWrite
    \/ DeleteEvent

SpecEvents == InitEvents /\ [][NextEvents]_vars

\* ------------------------------------------------------ a MinHeap on its own
MaxHeap == 4
MaxPriority == 2
MaxValue == 2
Priorities == 0..MaxPriority
HeapValues == 1..MaxValue

InitHeap ==
    /\ dbNodes = {}
    /\ dbEdges = << >>
    /\ autoinc = [node |-> 1, edge |-> 1]
    /\ engines = [i \in InstIds |-> FreshSlot]
    /\ pathfinderInstance = Null
    /\ calls = [c \in CallIds |-> IdleCall]
    /\ writer = IdleWriter
    /\ query = NoQuery
    /\ search = NoSearch
    /\ narration = NoNarration
    /\ EventsIdle
    /\ minHeap = NewHeap

\* push(priority, value) followed by isEmpty(); held gains the entry
Push ==
    /\ Len(minHeap.heap) < MaxHeap
    /\ \E priority \in Priorities, value \in HeapValues :
         LET h == HeapPush(minHeap.heap, priority, value)
         IN minHeap' = [heap |-> h, op |-> "push", returned |-> NullEntry,
                        isEmpty |-> isEmpty(h),
                        held |-> minHeap.held (+) SetToBag({HeapEntry(priority, value)})]
    /\ UNCHANGED <<storeVars, engines, pathfinderInstance, calls, writer, query, search,
                   narration, events, eventCalls>>

\* pop() followed by isEmpty(); held loses the entry returned
Pop ==
    /\ LET p == pop(minHeap.heap)
       IN minHeap' = [heap |-> p.heap, op |-> "pop", returned |-> p.min,
                      isEmpty |-> isEmpty(p.heap),
                      held |-> IF p.min = NullEntry THEN minHeap.held
                               ELSE minHeap.held (-) SetToBag({p.min})]
    /\ UNCHANGED <<storeVars, engines, pathfinderInstance, calls, writer, query, search,
                   narration, events, eventCalls>>

NextHeap == Push \/ Pop

SpecHeap == InitHeap /\ [][NextHeap]_vars

\* ===================================================================== claims
\* ------------------------------------------------ what the claims speak about
Permitted(entry, avoidStairs) == ~(avoidStairs /\ entry.is_staircase)

Entries(graph, n) ==
    IF n \in DOMAIN graph THEN {graph[n][k] : k \in 1..Len(graph[n])} ELSE {}

MinOf(S) == CHOOSE x \in S : \A y \in S : x <= y

\* the least summed distance over the walks from currentId to goalId through
\* permitted adjacency entries that enter no node of `seen`, as a set: empty
\* when there is no such walk.  Distances are not negative, so a shortest walk
\* repeats no node.
RECURSIVE LeastDistance(_, _, _, _, _)
LeastDistance(graph, avoidStairs, currentId, goalId, seen) ==
    IF currentId = goalId THEN {0}
    ELSE LET open == {e \in Entries(graph, currentId) :
                        Permitted(e, avoidStairs) /\ e.to \notin seen}
             sums == UNION {{e.distance + d :
                               d \in LeastDistance(graph, avoidStairs, e.to, goalId,
                                                   seen \cup {e.to})} : e \in open}
         IN IF sums = {} THEN {} ELSE {MinOf(sums)}

Reachable(graph, avoidStairs, startId, goalId) ==
    LeastDistance(graph, avoidStairs, startId, goalId, {startId}) # {}

\* defined when Reachable
ShortestDistance(graph, avoidStairs, startId, goalId) ==
    MinOf(LeastDistance(graph, avoidStairs, startId, goalId, {startId}))

RECURSIVE SumSteps(_)
SumSteps(path) ==
    IF path = << >> THEN 0 ELSE Head(path).distance_from_prev + SumSteps(Tail(path))

SearchDone == search.result # NoResult

SearchReachable ==
    Reachable(engines[1].graph, query.avoidStairs, query.startId, query.goalId)

SearchShortest ==
    ShortestDistance(engines[1].graph, query.avoidStairs, query.startId, query.goalId)

\* the PathFinder objects that are Built
Built(i) == engines[i].initialized

\* C1: in every state in which an engine is Built, every active stored edge
\* whose forward entry is in the adjacency list of its from-node has its
\* reverse entry (same distance, angle turned by 180 degrees, same staircase
\* flag) in the adjacency list of its to-node.
C1_ReverseEntryExists ==
    \A i \in InstIds :
        Built(i) =>
            \A k \in 1..Len(dbEdges) :
                LET edge == dbEdges[k]
                IN (edge.is_active
                    /\ ForwardEntry(edge) \in Entries(engines[i].graph, edge.from_node_id))
                       => ReverseEntry(edge) \in Entries(engines[i].graph, edge.to_node_id)

\* C2: whenever a permitted path exists, findPath returns a path whose
\* total_distance is the least summed distance over the permitted walks from
\* start to goal.
C2_ReturnsShortestPath ==
    (SearchDone /\ SearchReachable)
        => /\ search.result.kind = "path"
           /\ search.result.total_distance = Round2(SearchShortest)

\* C3: the distance_from_prev of the returned steps sum to total_distance, up
\* to the rounding to two decimals.
C3_StepsSumToTotal ==
    (SearchDone /\ search.result.kind = "path")
        => Abs(SumSteps(search.result.path) - search.result.total_distance) * 200 <= Scale

\* C4: a path returned with avoidStairs = true has no step with
\* is_staircase = true.
C4_NoStaircaseStep ==
    (SearchDone /\ search.result.kind = "path" /\ query.avoidStairs)
        => \A k \in 1..Len(search.result.path) : ~search.result.path[k].is_staircase

\* an avoidStairs query that returned a path of several steps although the
\* shortest route of the snapshot uses a staircase
C4_Witness ==
    /\ SearchDone
    /\ search.result.kind = "path"
    /\ query.avoidStairs
    /\ Len(search.result.path) >= 3
    /\ ShortestDistance(engines[1].graph, FALSE, query.startId, query.goalId)
         < SearchShortest

\* a call takes the step that runs its checks and its search
Searches(c) == calls[c].pc = "goal_r" /\ calls'[c].pc = "done"

Finished(c) == calls[c].pc = "done"

\* C5: on a Built engine with both codes resolving to nodes, findPath returns
\* NoPathFound exactly when the goal is not reachable from the start through
\* the adjacency entries avoidStairs permits, and a path in every other case.
C5_NoPathIffUnreachable ==
    [][\A c \in CallIds :
          (/\ Searches(c)
           /\ Built(calls[c].inst)
           /\ calls[c].startId # NoNode
           /\ calls[c].goalId # NoNode)
              => LET reach == Reachable(engines[calls[c].inst].graph,
                                        calls'[c].avoidStairs,
                                        calls[c].startId, calls[c].goalId)
                 IN /\ (calls'[c].result.kind = "no_path") <=> ~reach
                    /\ reach => calls'[c].result.kind = "path"]_vars

\* what findPath returns for the arguments of call c on a graph built, with
\* nothing interleaved, from the store as it is now
FreshAnswer(c) ==
    FindPathRun(BuildGraph(dbNodes, dbEdges), calls[c].startCode, calls[c].goalCode,
                FindOne(dbNodes, calls[c].startCode), FindOne(dbNodes, calls[c].goalCode),
                calls[c].avoidStairs).result

\* what findPath returns for the arguments and lookups of call c on snapshot snap
AnswerOn(c, snap) ==
    FindPathRun(snap, calls[c].startCode, calls[c].goalCode, calls[c].startId,
                calls[c].goalId, calls[c].avoidStairs).result

\* C6: a findPath call that overlaps no data-layer operation (every commit
\* before it was followed by its resetPathfinder) returns what a snapshot
\* rebuilt from the store as it is at that query gives.
C6_NextQueryUsesRebuiltSnapshot ==
    \A c \in CallIds :
        (Finished(c) /\ calls[c].alone) => calls[c].result = FreshAnswer(c)

\* a call overlapping nothing returned a path over an edge after a reset had
\* dropped a built snapshot that gives another answer
C6_Witness ==
    \E c \in CallIds :
        /\ Finished(c)
        /\ calls[c].alone
        /\ writer.dropped # NoSnap
        /\ calls[c].result.kind = "path"
        /\ calls[c].result.num_nodes = 2
        /\ calls[c].result # AnswerOn(c, writer.dropped)

\* C7: a findPath call past its build check when resetPathfinder runs returns
\* what the snapshot it started with gives for its lookups.
C7_InFlightKeepsSnapshot ==
    \A c \in CallIds :
        (Finished(c) /\ calls[c].resetHit) => calls[c].result = AnswerOn(c, calls[c].snap)

Count(seq, x) == Cardinality({k \in 1..Len(seq) : seq[k] = x})

\* the graph holds every node the build fetched and, for every edge it fetched,
\* the forward and the reverse entry exactly once
Complete(eng) ==
    /\ \A n \in eng.fetchedNodes :
          MapHas(eng.nodesCache, n.node_id) /\ MapHas(eng.graph, n.node_id)
    /\ \A k \in 1..Len(eng.fetchedEdges) :
          LET edge == eng.fetchedEdges[k]
          IN /\ Count(Neighbors(eng.graph, edge.from_node_id), ForwardEntry(edge)) = 1
             /\ Count(Neighbors(eng.graph, edge.to_node_id), ReverseEntry(edge)) = 1

\* C8: when findPath calls have overlapped on an engine that was not built, a
\* call about to run its search (both its codes resolved) finds the graph
\* complete.
C8_NoHalfBuiltGraph ==
    \A c \in CallIds :
        (/\ calls[c].pc = "goal_r"
         /\ calls[c].startId # NoNode
         /\ calls[c].goalId # NoNode
         /\ engines[calls[c].inst].overlapped)
            => Complete(engines[calls[c].inst])

\* C9: a start code that resolves to no node gives the start-not-found error
\* naming startCode, also when the goal does not resolve either; a goal code
\* that resolves to no node, the start resolving, gives the goal-not-found
\* error naming goalCode; in both cases nothing is pushed on the open set.
C9_NodeNotFound ==
    \A c \in CallIds :
        Finished(c) =>
            /\ calls[c].startCode = UnknownCode => calls[c].startId = NoNode
            /\ calls[c].goalCode = UnknownCode => calls[c].goalId = NoNode
            /\ calls[c].startId = NoNode =>
                 /\ calls[c].result = StartNotFound(calls[c].startCode)
                 /\ calls[c].pushes = 0
            /\ (calls[c].startId # NoNode /\ calls[c].goalId = NoNode) =>
                 /\ calls[c].result = GoalNotFound(calls[c].goalCode)
                 /\ calls[c].pushes = 0

\* a call whose two codes both resolve to no node has returned
C9_Witness ==
    \E c \in CallIds :
        /\ Finished(c)
        /\ calls[c].startId = NoNode
        /\ calls[c].goalId = NoNode
        /\ calls[c].goalCode # calls[c].startCode
        /\ calls[c].result.kind = "start_not_found"

\* C10: findPath(X, X, avoidStairs), X resolving to a node of the snapshot,
\* returns a path of exactly one step (node X, distance_from_prev 0,
\* compass_angle null) with num_nodes = 1 and total_distance = 0.
C10_SameNodeSingleStep ==
    [][\A c \in CallIds :
          (/\ Searches(c)
           /\ calls[c].startId # NoNode
           /\ calls[c].goalId = calls[c].startId
           /\ MapHas(engines[calls[c].inst].nodesCache, calls[c].startId))
              => LET r == calls'[c].result
                 IN /\ r.kind = "path"
                    /\ Len(r.path) = 1
                    /\ r.path[1].node_id = calls[c].startId
                    /\ r.path[1].node_code = calls[c].startCode
                    /\ r.path[1].distance_from_prev = 0
                    /\ r.path[1].compass_angle = NullAngle
                    /\ r.num_nodes = 1
                    /\ r.total_distance = 0]_vars

\* a call with equal codes has returned its one-step path, for a node that
\* has an edge, with avoidStairs set
C10_Witness ==
    \E c \in CallIds :
        /\ Finished(c)
        /\ calls[c].startId # NoNode
        /\ calls[c].goalId = calls[c].startId
        /\ calls[c].avoidStairs
        /\ calls[c].result.kind = "path"
        /\ calls[c].result.num_nodes = 1
        /\ \E k \in 1..Len(dbEdges) : dbEdges[k].from_node_id = calls[c].startId

\* a build of call c ends by a rejected fetch
BuildFails(c) ==
    calls[c].pc \in {"nodes_q", "edges_q"} /\ calls'[c].result = ProviderError

\* C11: when the provider fails at the node fetch or at the edge fetch of a
\* build, findPath fails with the provider error, the engine is not Built, and
\* its node cache and adjacency map are left empty.
C11_FailedBuildLeavesNothing ==
    [][\A c \in CallIds :
          BuildFails(c)
              => /\ calls'[c].pc = "done"
                 /\ ~engines'[calls[c].inst].initialized
                 /\ engines'[calls[c].inst].nodesCache = EmptyMap
                 /\ engines'[calls[c].inst].graph = EmptyMap]_vars

\* the position of call c changes to pc
Enters(c, pc) == calls[c].pc # pc /\ calls'[c].pc = pc

\* resetPathfinder() runs on a live singleton
ResetsSingleton ==
    writer.pc = "committed" /\ writer'.pc = "idle" /\ pathfinderInstance # Null

\* C12: a findPath call that finds the engine Unbuilt fetches the whole node
\* list and then the whole active-edge list, once each, and has the engine
\* Built before its lookups and search; a call that finds it Built goes to
\* its lookups with no list fetch; reset() leaves the engine Unbuilt with both
\* maps empty.
C12_BuildOncePerReset ==
    [][/\ \A c \in CallIds :
            /\ (calls[c].pc = "idle" /\ calls'[c].pc # "idle") =>
                 calls'[c].pc = IF pathfinderInstance # Null
                                   /\ engines[pathfinderInstance].initialized
                                THEN "start_q" ELSE "nodes_q"
            /\ Enters(c, "nodes_q") => calls[c].pc = "idle"
            /\ Enters(c, "nodes_r") =>
                 calls[c].pc = "nodes_q" /\ calls'[c].pending = dbNodes
            /\ Enters(c, "edges_q") => calls[c].pc = "nodes_r"
            /\ Enters(c, "edges_r") =>
                 calls[c].pc = "edges_q" /\ calls'[c].pending = ActiveEdges(dbEdges)
            /\ Enters(c, "start_q") =>
                 /\ calls[c].pc \in {"idle", "edges_r"}
                 /\ engines'[calls'[c].inst].initialized
       /\ ResetsSingleton =>
            /\ ~engines'[pathfinderInstance].initialized
            /\ engines'[pathfinderInstance].nodesCache = EmptyMap
            /\ engines'[pathfinderInstance].graph = EmptyMap]_vars

\* after a reset dropped a built snapshot, a call has built the engine anew
\* from a store with an edge, found a path, and the engine is still Built
C12_Witness ==
    \E c \in CallIds :
        /\ Finished(c)
        /\ writer.dropped # NoSnap
        /\ calls[c].result.kind = "path"
        /\ calls[c].result.num_nodes = 2
        /\ pathfinderInstance = calls[c].inst
        /\ Built(pathfinderInstance)
        /\ engines[pathfinderInstance].fetchedNodes = dbNodes
        /\ engines[pathfinderInstance].fetchedEdges = ActiveEdges(dbEdges)

\* the node cache of eng holds a node with this code
Cached(eng, code) ==
    \E n \in DOMAIN eng.nodesCache : eng.nodesCache[n].node_code = code

\* the provider answers the find-node-by-code request of call c for its goal
\* (the second request of the call)
LookupGoal(c) == calls[c].pc = "goal_q" /\ calls'[c].pc = "goal_r"

\* C13: on a Built engine, a findPath call whose start and goal codes are both
\* in the node cache makes no find-node-by-code request to the provider.
C13_NoProviderCallOnceBuilt ==
    [][\A c \in CallIds :
          ~(/\ LookupGoal(c)
            /\ Built(calls[c].inst)
            /\ Cached(engines[calls[c].inst], calls[c].startCode)
            /\ Cached(engines[calls[c].inst], calls'[c].goalCode))]_vars

\* a step commits a node or edge change to the store
Commits == <<dbNodes, dbEdges>>' # <<dbNodes, dbEdges>>

\* a data-layer operation that has committed finishes
OperationEnds == writer.pc \in {"committed", "qr"} /\ writer'.pc = "idle"

\* C14: a data-layer operation that commits a node or edge change does not
\* finish with that commit, and it finishes only by resetPathfinder(): the
\* singleton is reset and dropped.
C14_ResetAfterEveryCommit ==
    [][/\ Commits => writer'.pc # "idle"
       /\ OperationEnds =>
            /\ pathfinderInstance' = Null
            /\ pathfinderInstance # Null =>
                 ~engines'[pathfinderInstance].initialized]_vars

\* the rows of the edge table that have node n at the given end
EdgesFrom(edges, n) == {k \in 1..Len(edges) : edges[k].from_node_id = n}
EdgesTo(edges, n) == {k \in 1..Len(edges) : edges[k].to_node_id = n}

\* C15: buildGraph over the nodes N and the edges E of the store (every
\* endpoint in N) leaves a Built engine with a node-cache entry and an
\* adjacency list for every node of N and no other, exactly one forward and
\* one reverse entry per active edge, nothing else in any list (so an empty
\* list for a node without active edges), and no entry of an inactive edge.
C15_BuildGraphContents ==
    Built(1) =>
        LET eng == engines[1]
            active == ActiveEdges(dbEdges)
        IN /\ DOMAIN eng.nodesCache = NodeIdsOf(dbNodes)
           /\ DOMAIN eng.graph = NodeIdsOf(dbNodes)
           /\ \A n \in dbNodes : eng.nodesCache[n.node_id] = n
           /\ \A n \in NodeIdsOf(dbNodes) :
                Len(eng.graph[n]) = Cardinality(EdgesFrom(active, n))
                                      + Cardinality(EdgesTo(active, n))
           /\ \A k \in 1..Len(dbEdges) :
                LET edge == dbEdges[k]
                IN IF edge.is_active
                   THEN /\ Count(eng.graph[edge.from_node_id], ForwardEntry(edge)) = 1
                        /\ Count(eng.graph[edge.to_node_id], ReverseEntry(edge)) = 1
                   ELSE \A n \in NodeIdsOf(dbNodes) :
                          \A e \in Entries(eng.graph, n) : e.edge_id # edge.edge_id

\* a build over a store with an active edge, an inactive one and a node that
\* no active edge touches
C15_Witness ==
    /\ Built(1)
    /\ Len(dbEdges) = 2
    /\ dbEdges[1].is_active
    /\ ~dbEdges[2].is_active
    /\ dbEdges[1].from_node_id = dbEdges[2].to_node_id
    /\ Len(engines[1].graph[dbEdges[1].to_node_id]) = 1
    /\ \E n \in NodeIdsOf(dbNodes) : engines[1].graph[n] = << >>

\* what findPath with avoidStairs = false returns for the codes and lookups
\* of call c on engine eng
AnswerWithStairs(c, eng) ==
    FindPathRun(eng, calls[c].startCode, calls[c].goalCode, calls[c].startId,
                calls[c].goalId, FALSE).result

\* C16: the search of a findPath call with avoidStairs = true leaves the node
\* cache and the adjacency map as they were, and findPath with avoidStairs =
\* false between the same codes returns after it what it returns before it.
C16_AvoidStairsLeavesGraph ==
    [][\A c \in CallIds :
          (Searches(c) /\ calls'[c].avoidStairs)
              => /\ engines'[calls[c].inst].nodesCache = engines[calls[c].inst].nodesCache
                 /\ engines'[calls[c].inst].graph = engines[calls[c].inst].graph
                 /\ AnswerWithStairs(c, engines'[calls[c].inst])
                      = AnswerWithStairs(c, engines[calls[c].inst])]_vars

\* an avoidStairs call has returned NoPathFound and the engine still holds the
\* staircase entry that joins its start to its goal
C16_Witness ==
    \E c \in CallIds :
        /\ Finished(c)
        /\ calls[c].avoidStairs
        /\ calls[c].result = NoPathFound
        /\ Built(calls[c].inst)
        /\ \E e \in Entries(engines[calls[c].inst].graph, calls[c].startId) :
             e.to = calls[c].goalId /\ e.is_staircase
        /\ AnswerWithStairs(c, engines[calls[c].inst]).kind = "path"

\* step k of the path was entered from the node of step k - 1 by an entry of
\* that node's adjacency list, and carries that entry's values
EnteredByEntry(graph, path, k) ==
    \E e \in Entries(graph, path[k - 1].node_id) :
        /\ e.to = path[k].node_id
        /\ e.distance = path[k].distance_from_prev
        /\ e.compass_angle = path[k].compass_angle
        /\ e.is_staircase = path[k].is_staircase

\* C17: a successful result lists its steps in traversal order: the first is
\* the start node with distance_from_prev 0, compass_angle null and
\* is_staircase false, the last is the goal node, every later step carries
\* the values of the adjacency entry that enters it from the step before, and
\* num_nodes is the number of steps.
C17_StepsInTraversalOrder ==
    (SearchDone /\ search.result.kind = "path")
        => LET path == search.result.path
           IN /\ Len(path) >= 1
              /\ path[1].node_id = query.startId
              /\ path[1].node_code = query.startCode
              /\ path[1].distance_from_prev = 0
              /\ path[1].compass_angle = NullAngle
              /\ ~path[1].is_staircase
              /\ path[Len(path)].node_id = query.goalId
              /\ path[Len(path)].node_code = query.goalCode
              /\ \A k \in 2..Len(path) : EnteredByEntry(engines[1].graph, path, k)
              /\ search.result.num_nodes = Len(path)

\* a path of three steps or more with a step entered against the stored
\* direction of its edge and a step entered by a staircase
C17_Witness ==
    /\ SearchDone
    /\ search.result.kind = "path"
    /\ Len(search.result.path) >= 3
    /\ \E k \in 2..Len(search.result.path) :
         search.result.path[k].compass_angle = ReverseAngle(SearchAngle)
    /\ \E k \in 2..Len(search.result.path) : search.result.path[k].is_staircase

\* the angle, in 1/AngleScale degrees, of a whole or fractional degree value
Degrees(whole, hundredths) == whole * AngleScale + hundredths

\* the circular distance, clockwise, from angle a to angle b
Clockwise(a, b) == (b - a) % (360 * AngleScale)

\* the heading of the k-th name of the rose, clockwise from North
Heading(k) == (k - 1) * SectorWidth

\* angle lies in the sector of width 22.5 degrees centred on heading h
InSector(angle, h) ==
    Clockwise(h, angle) < HalfSector \/ Clockwise(angle, h) <= HalfSector

\* C19: for every angle of [0, 360) compassToDirection returns the name, of
\* the 16 listed clockwise from North, whose 22.5-degree sector centred on its
\* heading holds the angle; 0 and 359.9 give North, 90 East, 180 South and
\* 270 West.
C19_CompassSectors ==
    narration.direction # "none" =>
        /\ \E k \in 1..RoseSize :
             InSector(narration.angle, Heading(k)) /\ narration.direction = CompassRose[k]
        /\ narration.angle \in {Degrees(0, 0), Degrees(359, 90)} => narration.direction = "North"
        /\ narration.angle = Degrees(90, 0) => narration.direction = "East"
        /\ narration.angle = Degrees(180, 0) => narration.direction = "South"
        /\ narration.angle = Degrees(270, 0) => narration.direction = "West"

\* 359.9 has been named
C19_Witness == narration.angle = Degrees(359, 90) /\ narration.direction = "North"

\* getDirections has returned
Narrated == narration.returned # NoResult

\* C18: getDirections returns what findPath returned, and when that is a path
\* it adds directions: one line per step in order, the first a 'Start at'
\* line, every later one a 'Go' line that says ' via stairs' exactly when its
\* step is a staircase step; an error result comes back without directions.
C18_DirectionsFollowResult ==
    Narrated =>
        LET found == narration.found
            returned == narration.returned
        IN /\ \A f \in DOMAIN found : f \in DOMAIN returned /\ returned[f] = found[f]
           /\ found.kind # "path" => "directions" \notin DOMAIN returned
           /\ found.kind = "path" =>
                /\ DOMAIN returned = DOMAIN found \cup {"directions"}
                /\ Len(returned.directions) = Len(found.path)
                /\ returned.directions[1].line = "Start at"
                /\ \A k \in 1..Len(found.path) :
                     /\ returned.directions[k].name = found.path[k].node_code
                     /\ k > 1 => /\ returned.directions[k].line = "Go"
                                 /\ (returned.directions[k].stairInfo = " via stairs")
                                        <=> found.path[k].is_staircase

\* a path of three steps, one over stairs and one not, has been narrated
C18_Witness ==
    /\ Narrated
    /\ narration.found.kind = "path"
    /\ Len(narration.found.path) >= 3
    /\ \E k \in 2..Len(narration.found.path) : narration.found.path[k].is_staircase
    /\ \E k \in 2..Len(narration.found.path) : ~narration.found.path[k].is_staircase

\* both dates of a row are set
BothDates(row) == row.start_datetime # NoDate /\ row.end_datetime # NoDate

\* every stored event with both dates starts before it ends
StoredEventsOrdered(table) ==
    \A id \in DOMAIN table.rows :
        BothDates(table.rows[id]) =>
            table.rows[id].start_datetime < table.rows[id].end_datetime

\* this step is a call of createEvent, or of updateEvent on an event that
\* exists, answering or reaching its write
CallsOnStoredData ==
    /\ eventCalls'.last # IdleEventCall
    /\ eventCalls' # eventCalls \/ events' # events
    /\ eventCalls'.last.op = "update" => eventCalls'.last.eventId \in DOMAIN events.rows

\* the pair the call of this step would leave: the given values, else the
\* stored ones
ResultingPair ==
    LET call == eventCalls'.last
    IN IF call.op = "create" THEN EventRow(call.start, call.end)
       ELSE LET stored == events.rows[call.eventId]
            IN EventRow(IF call.start # NoDate THEN call.start ELSE stored.start_datetime,
                        IF call.end # NoDate THEN call.end ELSE stored.end_datetime)

\* the pair has both dates and does not start before it ends
Disordered(pair) == BothDates(pair) /\ pair.start_datetime >= pair.end_datetime

\* C20 as stated: every stored event with both dates has start < end, and
\* every create or update whose resulting pair has start >= end throws
\* 'Start datetime must be before end datetime' and writes nothing.
C20_DisorderedPairAlwaysDateError ==
    [][/\ StoredEventsOrdered(events')
       /\ CallsOnStoredData =>
            /\ Disordered(ResultingPair) => eventCalls'.last.outcome = "dates_error"
            /\ eventCalls'.last.outcome = "dates_error"
                   => events' = events /\ eventCalls'.pending = eventCalls.pending]_vars

\* C20, amended: every stored event with both dates has start < end; a create
\* or update whose node lookup succeeds and whose resulting pair has
\* start >= end throws 'Start datetime must be before end datetime'; a call
\* that throws it had such a pair and writes nothing.
C20_StoredEventsOrdered ==
    [][/\ StoredEventsOrdered(events')
       /\ CallsOnStoredData =>
            /\ (Disordered(ResultingPair) /\ eventCalls'.last.nodeFound)
                   => eventCalls'.last.outcome = "dates_error"
            /\ eventCalls'.last.outcome = "dates_error"
                   => /\ Disordered(ResultingPair)
                      /\ events' = events
                      /\ eventCalls'.pending = eventCalls.pending]_vars

\* an update giving only a start, not before the stored end, has thrown while
\* the write of another update of the same event is in flight
C20_Witness ==
    /\ eventCalls.last.op = "update"
    /\ eventCalls.last.outcome = "dates_error"
    /\ eventCalls.last.start # NoDate
    /\ eventCalls.last.end = NoDate
    /\ \E w \in eventCalls.pending : w.eventId = eventCalls.last.eventId

\* the floor heuristic never exceeds the least permitted distance to the goal,
\* for every node of the snapshot from which the goal can be reached
Admissible(eng, avoidStairs, goalId) ==
    \A n \in DOMAIN eng.nodesCache :
        Reachable(eng.graph, avoidStairs, n, goalId)
            => heuristic(eng.nodesCache, n, goalId)
                  <= ShortestDistance(eng.graph, avoidStairs, n, goalId)

\* C21: when the floor heuristic is admissible for the queried goal, findPath
\* returns a path whose total_distance is the least permitted path cost.
C21_AdmissibleGivesShortest ==
    (SearchDone /\ SearchReachable
     /\ Admissible(engines[1], query.avoidStairs, query.goalId))
        => /\ search.result.kind = "path"
           /\ search.result.total_distance = Round2(SearchShortest)

\* every node of the snapshot is on one floor
OneFloor(eng) ==
    \A m \in DOMAIN eng.nodesCache, n \in DOMAIN eng.nodesCache :
        eng.nodesCache[m].floor_level = eng.nodesCache[n].floor_level

\* C22: when all nodes of the snapshot are on the same floor, findPath returns
\* for every reachable pair and either avoidStairs value a path whose
\* total_distance is the least over the permitted paths.
C22_OneFloorIsDijkstra ==
    (SearchDone /\ OneFloor(engines[1]) /\ SearchReachable)
        => /\ search.result.kind = "path"
           /\ search.result.total_distance = Round2(SearchShortest)

\* on one floor, a path of three steps or more was returned although an edge
\* joins start and goal, and staircases had to be avoided
C22_Witness ==
    /\ SearchDone
    /\ OneFloor(engines[1])
    /\ query.avoidStairs
    /\ search.result.kind = "path"
    /\ Len(search.result.path) >= 3
    /\ \E e \in Entries(engines[1].graph, query.startId) : e.to = query.goalId

\* C23: in any interleaving of findPath with the data-layer operations, a
\* findPath call ends with a path, a node-not-found error, the no-path error
\* or a propagated provider failure, never with an internal fault.
C23_NoInternalFault ==
    \A c \in CallIds :
        calls[c].pc = "done"
            => calls[c].result.kind \in {"path", "start_not_found", "goal_not_found",
                                         "no_path", "provider_error"}

\* the entries of a heap array, with their multiplicities
BagOfHeap(h) ==
    [e \in {h[k] : k \in 1..Len(h)} |-> Cardinality({k \in 1..Len(h) : h[k] = e})]

\* the entries pushed and not yet popped, counted from the calls made: the
\* array holds exactly the entries of minHeap.held
HoldsPushedNotPopped == BagOfHeap(minHeap.heap) = minHeap.held

\* C24: after any sequence of push and pop calls, pop returns an entry whose
\* priority is the least among the entries pushed and not yet popped and
\* removes exactly that entry; isEmpty is true exactly when no such entry
\* remains; pop on an empty heap returns null and leaves the heap empty.
C24_PopReturnsMinimum ==
    [][/\ minHeap'.op = "pop" =>
            IF minHeap.held = EmptyBag
            THEN minHeap'.returned = NullEntry /\ minHeap'.heap = << >>
            ELSE /\ BagIn(minHeap'.returned, minHeap.held)
                 /\ \A e \in BagToSet(minHeap.held) :
                       minHeap'.returned.priority <= e.priority
                 /\ BagOfHeap(minHeap'.heap)
                       = minHeap.held (-) SetToBag({minHeap'.returned})
       /\ minHeap'.op = "push" =>
            \E e \in BagToSet(BagOfHeap(minHeap'.heap)) :
                BagOfHeap(minHeap'.heap) = minHeap.held (+) SetToBag({e})
       /\ HoldsPushedNotPopped'
       /\ minHeap'.isEmpty <=> minHeap'.held = EmptyBag]_vars

\* a pop returned the least of three entries, one of them its equal in priority
C24_Witness ==
    /\ minHeap.op = "pop"
    /\ minHeap.returned # NullEntry
    /\ Len(minHeap.heap) >= 2
    /\ \E k \in 1..Len(minHeap.heap) : minHeap.heap[k].priority = minHeap.returned.priority
    /\ \E k \in 1..Len(minHeap.heap) : minHeap.heap[k].priority > minHeap.returned.priority

\* the node of the entry the next turn of the search pops
PoppedNode == HeapPopMin(search.openSet).value

\* the number of entries popped so far
Pops == search.pushes - Len(search.openSet)

\* C25: within one findPath call every node is finalized at most once: a
\* popped entry whose node is in the visited set is discarded, changing
\* neither gScore nor the predecessor map nor pushing anything, and a popped
\* entry whose node is not visited puts exactly that node in the visited set,
\* so only the turn that finalizes a node relaxes its adjacency entries.
C25_FinalizedOnce ==
    [][search.openSet # << >> =>
          /\ PoppedNode \in search.visited =>
                /\ search'.gScore = search.gScore
                /\ search'.cameFrom = search.cameFrom
                /\ search'.visited = search.visited
                /\ search'.pushes = search.pushes
                /\ search'.openSet = HeapPopRest(search.openSet)
                /\ search'.result = NoResult
          /\ PoppedNode \notin search.visited =>
                /\ search'.visited = search.visited \cup {PoppedNode}
                /\ search'.pushes - search.pushes
                      <= Len(Neighbors(engines[1].graph, PoppedNode))
          /\ Cardinality(search'.visited) <= Cardinality(search.visited) + 1]_vars

\* an entry of a node already finalized has been popped and discarded: more
\* entries were popped than nodes were finalized
C25_Witness ==
    /\ search.result.kind = "path"
    /\ Pops > Cardinality(search.visited)

\* the number of adjacency entries of a snapshot
AdjacencyEntries(graph) ==
    LET RECURSIVE Total(_)
        Total(S) == IF S = {} THEN 0
                    ELSE LET n == CHOOSE x \in S : TRUE
                         IN Len(graph[n]) + Total(S \ {n})
    IN Total(DOMAIN graph)

\* C26: every search on a finite snapshot ends (by a result: the goal popped,
\* or the open set found empty), and it pushes at most 1 plus the number of
\* adjacency entries of the snapshot onto the heap.
C26_SearchTerminates ==
    /\ [](search.pushes <= 1 + AdjacencyEntries(engines[1].graph))
    /\ <>SearchDone

\* a finished search whose heap held two entries of one node at the end
C26_Witness ==
    /\ SearchDone
    /\ \E j \in 1..Len(search.openSet), k \in 1..Len(search.openSet) :
          j # k /\ search.openSet[j].value = search.openSet[k].value

\* every recorded predecessor link is covered by the gScores: the gScore of
\* the node is at least the gScore of its predecessor plus the distance of
\* the entry recorded with it
LinksCovered ==
    \A n \in DOMAIN search.cameFrom :
        /\ MapHas(search.gScore, n)
        /\ MapHas(search.gScore, search.cameFrom[n].prev)
        /\ search.gScore[n] >= search.gScore[search.cameFrom[n].prev]
                                  + search.cameFrom[n].edge.distance

\* C27: throughout the search every node with a predecessor has a gScore of
\* at least its predecessor's gScore plus the distance of the recorded entry,
\* gScores only decrease, and on a successful findPath the total distance
\* before rounding (the goal's gScore) is never smaller than the sum of
\* distance_from_prev over the returned steps.
C27_TotalCoversSteps ==
    [][/\ LinksCovered'
       /\ \A n \in DOMAIN search.gScore :
             MapHas(search'.gScore, n) /\ search'.gScore[n] <= search.gScore[n]
       /\ search'.result.kind = "path"
             => search'.gScore[query.goalId] >= SumSteps(search'.result.path)]_vars

\* a path was returned whose total distance exceeds the sum of its steps
C27_Witness ==
    /\ search.result.kind = "path"
    /\ Len(search.result.path) >= 3
    /\ search.gScore[query.goalId] > SumSteps(search.result.path)

\* following the predecessor links from n ends at a node without predecessor
\* within `fuel` hops
RECURSIVE EndsWithin(_, _, _)
EndsWithin(cameFrom, n, fuel) ==
    IF ~MapHas(cameFrom, n) THEN TRUE
    ELSE IF fuel = 0 THEN FALSE
    ELSE EndsWithin(cameFrom, cameFrom[n].prev, fuel - 1)

\* C28: the start node never receives a predecessor and the predecessor links
\* never form a cycle: from every node they end within |nodes| - 1 hops; the
\* steps of a returned path form a simple walk of the snapshot: consecutive
\* steps are joined by an adjacency entry from the earlier node to the later
\* one and no node appears twice.
C28_PathIsSimpleWalk ==
    /\ ~MapHas(search.cameFrom, query.startId)
    /\ \A n \in DOMAIN search.cameFrom :
          EndsWithin(search.cameFrom, n, Cardinality(DOMAIN engines[1].nodesCache) - 1)
    /\ search.result.kind # "diverges"
    /\ search.result.kind = "path" =>
          LET path == search.result.path
          IN /\ \A k \in 2..Len(path) : EnteredByEntry(engines[1].graph, path, k)
             /\ \A j \in 1..Len(path), k \in 1..Len(path) :
                   path[j].node_id = path[k].node_id => j = k
             /\ Len(path) <= Cardinality(DOMAIN engines[1].nodesCache)

\* a path through all four nodes was returned after a predecessor link had
\* been rewritten (more pushes than nodes)
C28_Witness ==
    /\ search.result.kind = "path"
    /\ Len(search.result.path) = MaxNodes
    /\ search.pushes > MaxNodes

\* every adjacency entry is at least 4 metres long per floor it crosses
Consistent(eng) ==
    \A n \in DOMAIN eng.graph :
        \A e \in Entries(eng.graph, n) :
            e.distance >= MetersPerFloor * Scale
                            * Abs(eng.nodesCache[n].floor_level
                                  - eng.nodesCache[e.to].floor_level)

\* C29: when every adjacency entry of the snapshot is at least 4 metres long
\* per floor it crosses, no gScore of a visited node is ever lowered, findPath
\* returns a least-cost permitted path for every reachable pair, and
\* total_distance (before rounding) equals the sum of the step distances.
C29_ConsistentGivesShortest ==
    [][Consistent(engines[1]) =>
          /\ \A n \in search.visited : search'.gScore[n] = search.gScore[n]
          /\ (search'.result # NoResult /\ SearchReachable) =>
                /\ search'.result.kind = "path"
                /\ search'.result.total_distance = Round2(SearchShortest)
          /\ search'.result.kind = "path" =>
                /\ search'.gScore[query.goalId] = SumSteps(search'.result.path)
                /\ search'.result.total_distance
                      = Round2(SumSteps(search'.result.path))]_vars

\* on a snapshot whose edges between floors are all 5 metres long, a path of
\* three steps or more that changes floor was returned
C29_Witness ==
    /\ Consistent(engines[1])
    /\ search.result.kind = "path"
    /\ Len(search.result.path) >= 3
    /\ \E k \in 2..Len(search.result.path) :
          search.result.path[k].floor_level # search.result.path[k - 1].floor_level

\* C30: an engine on which reset() ran while one of its builds was in flight
\* does not become Built from that build: a PathFinder object that has seen a
\* reset is not initialized (a build begun after the reset runs on a new
\* object, the singleton having been dropped).
C30_ResetBuildNeverBuilt ==
    \A i \in InstIds : engines[i].resetSeen => ~engines[i].initialized

====
